---- MODULE Spec2Model ----
(***************************************************************************)
(* superintent-remote: the session relay and supervision engine.           *)
(*                                                                         *)
(*   terminal.ts         the Terminal Hub: one PTY-backed tmux process,    *)
(*                       the scrollback store and the set of client sinks  *)
(*   ssh-server.ts       per-IP auth failure tracking, the authentication  *)
(*                       handler, connection admission and idle timers     *)
(*   process-manager.ts  the watchdog loop and shutdown                    *)
(*                                                                         *)
(* Everything runs on one event loop, so every handler is one atomic       *)
(* action; an async function is cut at its awaits.                         *)
(***************************************************************************)
EXTENDS Integers, Sequences, FiniteSets, TLC

(***************************************************************************)
(* Bounds of the model.                                                    *)
(***************************************************************************)
\* output chunks the PTY produces in one behaviour
MaxChunks == 3
\* spawnTerminal/attachTerminal calls made on the hub in SpecHub
MaxSpawns == 2
\* clock advances in one behaviour
MaxTicks == 3
\* authentication attempts recorded in the attempt log of SpecLockout
MaxAttempts == 7
\* Date.now() when the server starts
StartTime == 100000
\* clock steps while connections idle
MaxIdleTicks == 4
\* opts.maxConnections the server is started with
MaxConnections == 2
\* terminations of the terminal process while a client is followed
MaxExits == 2

(***************************************************************************)
(* Program constants.                                                      *)
(***************************************************************************)
\* terminal.ts: const MAX_SCROLLBACK = 512 * 1024
MAX_SCROLLBACK == 524288

\* ssh-server.ts: const MAX_AUTH_FAILURES = 5
MAX_AUTH_FAILURES == 5
\* ssh-server.ts: const AUTH_LOCKOUT_MS = 60_000
AUTH_LOCKOUT_MS == 60000
\* ssh-server.ts: const DEFAULT_IDLE_TIMEOUT_MS = 30 * 60 * 1000
DEFAULT_IDLE_TIMEOUT_MS == 1800000
\* process-manager.ts: const MAX_RESTARTS = 10
MAX_RESTARTS == 10

NULL == 0

\* client sinks (one TerminalClient per shell channel)
Sinks == {"s1", "s2"}
\* byte lengths of the chunks the PTY delivers: half the cap, and one that
\* alone exceeds the cap
ChunkLens == {262144, 524289}
\* the session name createTmuxSessionName generates for the run, and the
\* name of a session the operator keeps in tmux
GeneratedName == "proj-remote"
OperatorName == "mine"
\* how far the clock moves between events of an idle connection
IdleSteps == {600000, 1200000, 1800000}
\* the data frames a client sends
Frames == {1, 2}
\* requested window sizes: below, at and above each limit
SizeRequests == {0, 1, 80, 200, 201, 500, 501, 100000}
\* terminal.ts: MIN_COLS, MAX_COLS, MIN_ROWS, MAX_ROWS
MIN_COLS == 1
MAX_COLS == 500
MIN_ROWS == 1
MAX_ROWS == 200
\* incoming connections: enough to fill the cap and two more
Conns == 1..(MaxConnections + 2)
\* source identities (remote addresses)
Ips == {"10.0.0.1", "10.0.0.2"}
\* how far the clock moves between two events (milliseconds)
TickSteps == {1, 60000}
\* passwords are strings, i.e. sequences of code points: "ab" is configured;
\* clients supply "ab", "ac", "a" or "\u00e9" (one code point, two UTF-8 bytes)
Secret == <<97, 98>>
Supplied == {<<97, 98>>, <<97, 99>>, <<97>>, <<233>>}
\* opts.password: null, or the configured string
NoPassword == [isNull |-> TRUE, text |-> <<>>]
Password(text) == [isNull |-> FALSE, text |-> text]
Methods == {"password", "none"}

VARIABLES
  \* ---- terminal.ts module state
  terminal,          \* let terminal: the PTY of the current process, or NULL
  shellProc,         \* let shellProc: the current process handle, or NULL
  tmuxSession,       \* let tmuxSession: name of the tmux session, or ""
  clients,           \* const clients = new Set<TerminalClient>()
  scrollbackChunks,  \* const scrollbackChunks: Buffer[]
  scrollbackSize,    \* let scrollbackSize
  pendingLaunch,     \* "claude\r" launch timers set by spawnTerminal, not yet fired
  \* ---- environment of the hub
  liveProcs,         \* process handles that have not terminated
  procCount,         \* handles handed out so far (handles are 1..procCount)
  tmuxSessions,      \* sessions the tmux server currently holds
  sinkPhase,         \* per sink: "new", "open" (shell started), "errored", "closed"
  sinkWritten,       \* per sink: the byte stream passed to its write(), in order
  termSize,          \* the PTY's dimensions (cols, rows); NoSize before a PTY
  \* ---- history
  output,            \* every chunk the PTY has delivered, in order
  clearedAt,         \* Len(output) when the scrollback was last cleared
  sinkReg,           \* per sink: what addClient saw and wrote at registration
  \* ---- ssh-server.ts module state
  authFailures,      \* const authFailures = new Map<ip, {count, lockedUntil}>()
  \* ---- environment of the server
  now,               \* Date.now()
  ticks,             \* clock advances so far
  \* ---- history
  lastAuth,          \* the last authentication attempt and its outcome
  lockAt,            \* per ip: when it was last told "locked out for 60s", or -1
  authLog,           \* SpecLockout: the attempts of one source, in order
  \* ---- ssh-server.ts startSSHServer closure state
  listening,         \* the Server accepts connections
  activeConnections, \* let activeConnections
  connState,         \* per connection: "new", "refused", "open", "errored", "ending", "closed"
  idleTimer,         \* per connection: let idleTimer, the deadline or NULL
  lastConnect,       \* history: the last connection event and what it found
  \* ---- process-manager.ts module state
  shutdownRequested, \* let shutdownRequested
  sshServer,         \* let sshServer: "server" or "null"
  currentSessionName,\* let currentSessionName
  isAttachMode,      \* let isAttachMode
  svcPc,             \* startServices: "init", "startPrompt", "starting", "running", "aborted"
  shPc,              \* shutdown(): "idle", "closing", "prompt", "done"
  wdPc,              \* watchdog(): "off", "awaitExit", "sleep", "done", "threw"
  wdProc,            \* watchdog: const proc, the handle it awaits
  restartCount,      \* watchdog: let restartCount
  wdDelay,           \* watchdog: const delay of the current backoff
  exited,            \* process.exit() has been called
  \* ---- history
  delays,            \* the backoff delays computed so far, in order
  gaveUp,            \* the watchdog logged "giving up"
  restartsDone,      \* spawnTerminal/attachTerminal calls made by the watchdog
  \* ---- ssh-server.ts per-connection progress
  connStage,         \* per connection: "none", "pending", "ready", "shell"
  connSink,          \* per connection: the TerminalClient of its shell, or "none"
  lastActivity,      \* history: time of admission or of the last data frame
  idleClosed,        \* history: the idle timer ended the connection, and when
  \* ---- what reached the terminal handle
  lastWrite,         \* history: the last writeToTerminal call and its effect
  lastResize,        \* history: the last resizeTerminal call and its effect
  \* ---- utils.ts createTmuxSessionName
  nameOut,           \* history: the last call, its inputs and its result
  \* ---- index.ts, one instance per process, and the PID marker of the port
  pidFile,           \* content of wrapper-<port>.pid, NULL when absent
  instPc             \* per instance: where it is in its life

hubVars == <<terminal, shellProc, tmuxSession, clients, scrollbackChunks,
             scrollbackSize, pendingLaunch, liveProcs, procCount, tmuxSessions,
             sinkPhase, sinkWritten, output, clearedAt, sinkReg,
             termSize>>

authVars == <<authFailures, now, ticks, lastAuth, lockAt, authLog>>

connVars == <<listening, activeConnections, connState, idleTimer, lastConnect>>

wdVars == <<shutdownRequested, sshServer, currentSessionName, isAttachMode,
            svcPc, shPc, wdPc, wdProc, restartCount, wdDelay, exited, delays,
            gaveUp, restartsDone>>

sessVars == <<connStage, connSink, lastActivity, idleClosed>>

extVars == <<lastWrite, lastResize, nameOut, pidFile, instPc>>

vars == <<hubVars, authVars, connVars, wdVars, sessVars, extVars>>

(***************************************************************************)
(* Buffers.  A Buffer is a sequence of runs [id, len]: run id is the PTY   *)
(* chunk the bytes came from, len the number of bytes.  Buffer.concat      *)
(* joins the runs, buf.length adds the lengths.                            *)
(***************************************************************************)
RECURSIVE BufLength(_)
BufLength(buf) ==
  IF buf = <<>> THEN 0 ELSE Head(buf).len + BufLength(Tail(buf))

RECURSIVE BufferConcat(_)
BufferConcat(list) ==
  IF list = <<>> THEN <<>> ELSE Head(list) \o BufferConcat(Tail(list))

NoReg == [at |-> -1, clear |-> -1, scroll |-> <<>>, replay |-> <<>>, seq |-> 0]

(***************************************************************************)
(* Scrollback store (terminal.ts 13-39).                                   *)
(***************************************************************************)
\* a plausible slip: `if` instead of `while`, one eviction per append
TrimScrollbackOnce(chunks, size) ==
  IF size > MAX_SCROLLBACK /\ Len(chunks) > 1
    THEN [chunks |-> Tail(chunks), size |-> size - BufLength(Head(chunks))]
    ELSE [chunks |-> chunks, size |-> size]

\* a plausible slip: the eviction forgets the `length > 1` guard
RECURSIVE TrimScrollbackAll(_, _)
TrimScrollbackAll(chunks, size) ==
  IF size > MAX_SCROLLBACK /\ Len(chunks) > 0
    THEN TrimScrollbackAll(Tail(chunks), size - BufLength(Head(chunks)))
    ELSE [chunks |-> chunks, size |-> size]

\* the while loop of appendScrollback: trim from the front when over limit
RECURSIVE TrimScrollback(_, _)
TrimScrollback(chunks, size) ==
  IF size > MAX_SCROLLBACK /\ Len(chunks) > 1
    THEN TrimScrollback(Tail(chunks), size - BufLength(Head(chunks)))
    ELSE [chunks |-> chunks, size |-> size]

\* appendScrollback(data): push, add the length, trim
AppendScrollback(chunks, size, buf) ==
  TrimScrollback(Append(chunks, buf), size + BufLength(buf))

\* getScrollbackBuffer(): Buffer.concat(scrollbackChunks)
GetScrollbackBuffer(chunks) == BufferConcat(chunks)

(***************************************************************************)
(* Sinks (terminal.ts 45-56).                                              *)
(***************************************************************************)
\* a plausible slip: addClient registers the sink without replaying
ReplayNothing(chunks, size) == <<>>

\* what addClient writes to the new client: the scrollback, if there is any
AddClientReplay(chunks, size) ==
  IF size > 0 THEN GetScrollbackBuffer(chunks) ELSE <<>>

\* addClient(client)
AddClient(s) ==
  LET replay == AddClientReplay(scrollbackChunks, scrollbackSize) IN
  /\ clients' = clients \cup {s}
  /\ sinkWritten' = [sinkWritten EXCEPT ![s] = @ \o replay]
  /\ sinkReg' = [sinkReg EXCEPT ![s] =
                   [at |-> Len(output), clear |-> clearedAt,
                    scroll |-> scrollbackChunks, replay |-> replay,
                    seq |-> Cardinality({x \in Sinks : sinkReg[x].seq > 0}) + 1]]

\* a plausible slip: a remove of an absent client puts it back
RemoveClientToggle(s) ==
  clients' = IF s \in clients THEN clients \ {s} ELSE clients \cup {s}

\* removeClient(client)
RemoveClient(s) == clients' = clients \ {s}

(***************************************************************************)
(* The PTY data callback (terminal.ts 104-109, 147-152): append to the     *)
(* scrollback, then write the chunk to every registered client.            *)
(***************************************************************************)
\* a plausible slip: the sinks registered before the current process was
\* installed are no longer written
BroadcastToNewcomers(written, cs, buf) ==
  [s \in Sinks |-> IF s \in cs /\ sinkReg[s].at >= clearedAt
                     THEN written[s] \o buf ELSE written[s]]

\* for (const client of clients) client.write(data)
Broadcast(written, cs, buf) ==
  [s \in Sinks |-> IF s \in cs THEN written[s] \o buf ELSE written[s]]

\* the loop when client.write throws for `bad`: a Set is iterated in
\* insertion order, so the clients added before `bad` have been written
\* to and the exception leaves the loop before the others
BroadcastUntil(written, cs, buf, bad) ==
  [s \in Sinks |-> IF s \in cs /\ sinkReg[s].seq < sinkReg[bad].seq
                     THEN written[s] \o buf ELSE written[s]]

\* the data callback when the write to `bad` throws: nothing catches it
TerminalDataThrows(buf, bad) ==
  LET sb == AppendScrollback(scrollbackChunks, scrollbackSize, buf) IN
  /\ scrollbackChunks' = sb.chunks
  /\ scrollbackSize' = sb.size
  /\ sinkWritten' = BroadcastUntil(sinkWritten, clients, buf, bad)
  /\ output' = Append(output, buf)

TerminalData(buf) ==
  LET sb == AppendScrollback(scrollbackChunks, scrollbackSize, buf) IN
  /\ scrollbackChunks' = sb.chunks
  /\ scrollbackSize' = sb.size
  /\ sinkWritten' = Broadcast(sinkWritten, clients, buf)
  /\ output' = Append(output, buf)

(***************************************************************************)
(* spawnTerminal / attachTerminal / killTerminal (terminal.ts 76-182).     *)
(***************************************************************************)
\* no PTY has been created yet
NoSize == [cols |-> 0, rows |-> 0]

\* Bun.spawn(..., { terminal: { cols: 80, rows: 24, ... } })
InitialSize == [cols |-> 80, rows |-> 24]

\* a plausible slip: the new handle is installed over the old scrollback
InstallProcKeep(sessionName) ==
  /\ procCount' = procCount + 1
  /\ liveProcs' = liveProcs \cup {procCount + 1}
  /\ terminal' = procCount + 1
  /\ shellProc' = procCount + 1
  /\ tmuxSession' = sessionName
  /\ clearedAt' = Len(output)
  /\ termSize' = InitialSize
  /\ UNCHANGED <<scrollbackChunks, scrollbackSize>>

\* the part both share: install the new handle and clear the scrollback
InstallProc(sessionName) ==
  /\ procCount' = procCount + 1
  /\ liveProcs' = liveProcs \cup {procCount + 1}
  /\ terminal' = procCount + 1
  /\ shellProc' = procCount + 1
  /\ tmuxSession' = sessionName
  /\ scrollbackChunks' = <<>>
  /\ scrollbackSize' = 0
  /\ clearedAt' = Len(output)
  /\ termSize' = InitialSize

\* spawnTerminal(sessionName, cwd): kill-session a leftover, new-session,
\* and set the timer that types "claude\r"
SpawnTerminal(sessionName) ==
  /\ InstallProc(sessionName)
  /\ tmuxSessions' = tmuxSessions \cup {sessionName}
  /\ pendingLaunch' = pendingLaunch + 1

\* attachTerminal(sessionName): attach-session to an existing session
AttachTerminal(sessionName) ==
  /\ InstallProc(sessionName)
  /\ UNCHANGED <<tmuxSessions, pendingLaunch>>

(***************************************************************************)
(* Per-IP auth failure tracking (ssh-server.ts 24-60).  The Map is a       *)
(* function whose domain is the set of ips that have a record.             *)
(***************************************************************************)
MapHas(map, ip) == ip \in DOMAIN map
MapSet(map, ip, rec) ==
  [x \in DOMAIN map \cup {ip} |-> IF x = ip THEN rec ELSE map[x]]
MapDelete(map, ip) == [x \in DOMAIN map \ {ip} |-> map[x]]
EmptyMap == [x \in {} |-> 0]

\* a plausible slip: `>` for `>=`, the lockout starts one failure late
RecordAuthFailureLate(map, ip, t) ==
  LET got == IF MapHas(map, ip) THEN map[ip] ELSE [count |-> 0, lockedUntil |-> 0]
      count == got.count + 1
  IN IF count > MAX_AUTH_FAILURES
       THEN [map |-> MapSet(map, ip, [count |-> count,
                                      lockedUntil |-> t + AUTH_LOCKOUT_MS]),
             locked |-> TRUE]
       ELSE [map |-> MapSet(map, ip, [count |-> count,
                                      lockedUntil |-> got.lockedUntil]),
             locked |-> FALSE]

\* a plausible slip: every failure stamps the record with a lockout time
RecordAuthFailureAlwaysStamp(map, ip, t) ==
  LET got == IF MapHas(map, ip) THEN map[ip] ELSE [count |-> 0, lockedUntil |-> 0]
      record == IF t > got.lockedUntil /\ got.lockedUntil > 0
                  THEN [count |-> 0, lockedUntil |-> 0] ELSE got
      count == record.count + 1
  IN [map |-> MapSet(map, ip, [count |-> count,
                               lockedUntil |-> t + AUTH_LOCKOUT_MS]),
      locked |-> count >= MAX_AUTH_FAILURES]

\* recordAuthFailure(ip): returns whether the ip is now locked out
RecordAuthFailure(map, ip, t) ==
  LET got == IF MapHas(map, ip) THEN map[ip] ELSE [count |-> 0, lockedUntil |-> 0]
      \* reset if lockout expired
      record == IF t > got.lockedUntil /\ got.lockedUntil > 0
                  THEN [count |-> 0, lockedUntil |-> 0] ELSE got
      count == record.count + 1
  IN IF count >= MAX_AUTH_FAILURES
       THEN [map |-> MapSet(map, ip, [count |-> count,
                                      lockedUntil |-> t + AUTH_LOCKOUT_MS]),
             locked |-> TRUE]
       ELSE [map |-> MapSet(map, ip, [count |-> count,
                                      lockedUntil |-> record.lockedUntil]),
             locked |-> FALSE]

\* a plausible slip: the rate limit check is left out
IsLockedOutNever(map, ip, t) == [map |-> map, locked |-> FALSE]

\* isLockedOut(ip): deletes an expired record on the way
IsLockedOut(map, ip, t) ==
  IF ~MapHas(map, ip) THEN [map |-> map, locked |-> FALSE]
  ELSE IF t > map[ip].lockedUntil /\ map[ip].lockedUntil > 0
    THEN [map |-> MapDelete(map, ip), locked |-> FALSE]
  ELSE [map |-> map, locked |-> map[ip].count >= MAX_AUTH_FAILURES]

\* a plausible slip: authFailures.clear() for authFailures.delete(ip)
ClearAuthFailuresAll(map, ip) == EmptyMap

\* a plausible slip: the record is kept
ClearAuthFailuresKeep(map, ip) == map

\* clearAuthFailures(ip)
ClearAuthFailures(map, ip) == MapDelete(map, ip)

(***************************************************************************)
(* The authentication handler (ssh-server.ts 94-126).                      *)
(***************************************************************************)
\* Buffer.from(string): the UTF-8 encoding (code points below 0x800)
RECURSIVE BufferFrom(_)
BufferFrom(str) ==
  IF str = <<>> THEN <<>>
  ELSE LET c == Head(str) IN
       (IF c < 128 THEN <<c>> ELSE <<192 + (c \div 64), 128 + (c % 64)>>)
         \o BufferFrom(Tail(str))

\* crypto.timingSafeEqual on two buffers of equal length
TimingSafeEqual(a, b) == \A i \in 1..Len(a) : a[i] = b[i]

\* the outcome the handler builds: the new map, the ctx call, the log line
\* and whether timingSafeEqual was called
Outcome(map, ctx, line, compared) ==
  [map |-> map, ctx |-> ctx, log |-> line, compared |-> compared]

\* a plausible slip: an attempt by another method counts as a failure
OnAuthenticationCheckedCountsAll(map, expected, ip, method, password, t) ==
  LET lock == IsLockedOut(map, ip, t) IN
  IF lock.locked THEN Outcome(lock.map, "reject", "locked-out", FALSE)
  ELSE LET input == BufferFrom(password)
           want == BufferFrom(expected.text)
           sameLength == Len(input) = Len(want)
       IN IF method = "password" /\ sameLength /\ TimingSafeEqual(input, want)
            THEN Outcome(ClearAuthFailures(lock.map, ip), "accept",
                         "accepted", TRUE)
            ELSE LET fail == RecordAuthFailure(lock.map, ip, t) IN
                 Outcome(fail.map, "reject",
                         IF fail.locked THEN "failed-locked" ELSE "failed",
                         method = "password" /\ sameLength)

\* a plausible slip: the buffers are compared without the length test
OnAuthenticationCheckedNoLength(map, expected, ip, method, password, t) ==
  LET lock == IsLockedOut(map, ip, t) IN
  IF lock.locked THEN Outcome(lock.map, "reject", "locked-out", FALSE)
  ELSE IF method = "password"
    THEN IF BufferFrom(password) = BufferFrom(expected.text)
           THEN Outcome(ClearAuthFailures(lock.map, ip), "accept",
                        "accepted", TRUE)
           ELSE Outcome(RecordAuthFailure(lock.map, ip, t).map, "reject",
                        "failed", TRUE)
    ELSE Outcome(lock.map, "reject", "", FALSE)

\* the branches after the no-auth test
OnAuthenticationChecked(map, expected, ip, method, password, t) ==
  LET lock == IsLockedOut(map, ip, t) IN
  IF lock.locked THEN Outcome(lock.map, "reject", "locked-out", FALSE)
  ELSE IF method = "password"
    THEN LET input == BufferFrom(password)
             want == BufferFrom(expected.text)
             sameLength == Len(input) = Len(want)
         IN IF sameLength /\ TimingSafeEqual(input, want)
              THEN Outcome(ClearAuthFailures(lock.map, ip), "accept",
                           "accepted", TRUE)
              ELSE LET fail == RecordAuthFailure(lock.map, ip, t) IN
                   Outcome(fail.map, "reject",
                           IF fail.locked THEN "failed-locked" ELSE "failed",
                           sameLength)
    ELSE Outcome(lock.map, "reject", "", FALSE)

\* a plausible slip: the rate limit is applied before the no-auth test
OnAuthenticationRateLimitFirst(map, expected, ip, method, password, t) ==
  IF IsLockedOut(map, ip, t).locked
    THEN Outcome(IsLockedOut(map, ip, t).map, "reject", "locked-out", FALSE)
  ELSE IF expected.isNull
    THEN Outcome(IsLockedOut(map, ip, t).map, "accept", "accepted-no-auth", FALSE)
  ELSE OnAuthenticationChecked(map, expected, ip, method, password, t)

\* client.on("authentication", ctx)
OnAuthentication(map, expected, ip, method, password, t) ==
  IF expected.isNull THEN Outcome(map, "accept", "accepted-no-auth", FALSE)
  ELSE OnAuthenticationChecked(map, expected, ip, method, password, t)

\* the Map with only the record (if any) of one ip
OnlyRecordOf(map, ip) == [x \in DOMAIN map \cap {ip} |-> map[x]]

NoAuth == [ip |-> "", noAuth |-> FALSE, method |-> "", password |-> <<>>,
           ctx |-> "", log |-> "", compared |-> FALSE, at |-> -1]

(***************************************************************************)
(* killTerminal (terminal.ts 169-182).                                     *)
(***************************************************************************)
\* killTerminal({keepSession}): kill-session unless kept, SIGTERM the
\* process, drop the handles
KillTerminal(keepSession) ==
  /\ tmuxSessions' = IF ~keepSession /\ tmuxSession # ""
                       THEN tmuxSessions \ {tmuxSession} ELSE tmuxSessions
  /\ terminal' = NULL
  /\ shellProc' = NULL

(***************************************************************************)
(* writeToTerminal / resizeTerminal (terminal.ts 41-43, 58-68).            *)
(***************************************************************************)
\* if (terminal) terminal.write(data): the handle written to, and whether
\* its process is still running
WriteToTerminal(data) ==
  lastWrite' = IF terminal # NULL
               THEN [data |-> data, handle |-> terminal,
                     live |-> terminal \in liveProcs]
               ELSE [data |-> data, handle |-> NULL, live |-> FALSE]

\* a plausible slip: only the lower limit is applied
ClampLow(lo, hi, x) == IF x < lo THEN lo ELSE x

\* Math.max(lo, Math.min(hi, Math.floor(x))), x a uint32 of the SSH message
Clamp(lo, hi, x) ==
  LET capped == IF x < hi THEN x ELSE hi IN IF capped > lo THEN capped ELSE lo

\* if (!terminal) return; terminal.resize(clampedCols, clampedRows)
ResizeTerminal(cols, rows) ==
  /\ lastResize' = IF terminal = NULL
                   THEN [cols |-> cols, rows |-> rows, handle |-> NULL,
                         toCols |-> 0, toRows |-> 0]
                   ELSE [cols |-> cols, rows |-> rows, handle |-> terminal,
                         toCols |-> Clamp(MIN_COLS, MAX_COLS, cols),
                         toRows |-> Clamp(MIN_ROWS, MAX_ROWS, rows)]
  /\ termSize' = IF terminal = NULL
                 THEN termSize
                 ELSE [cols |-> Clamp(MIN_COLS, MAX_COLS, cols),
                       rows |-> Clamp(MIN_ROWS, MAX_ROWS, rows)]

(***************************************************************************)
(* createTmuxSessionName (utils.ts 10-14).  Strings are sequences of       *)
(* one-character strings.                                                  *)
(***************************************************************************)
\* working directories, each with the folder name its session is to carry
Cwds ==
  {[path |->
      <<"/", "h", "o", "m", "e", "/", "u", "s", "e", "r", "/", "m", "y",
      " ", "p", "r", "o", "j", "e", "c", "t", " ", "(", "1", ")">>,
    folder |-> <<"m", "y", "-", "p", "r", "o", "j", "e", "c", "t", "-", "-", "1",
      "-">>],
   [path |->
      <<"/", "v", "e", "r", "y", "/", "d", "e", "e", "p", "/", "n", "e",
      "s", "t", "e", "d", "/", "p", "a", "t", "h">>,
    folder |-> <<"p", "a", "t", "h">>],
   [path |->
      <<"/", "t", "m", "p", "/", "t", "e", "s", "t", "/">>,
    folder |-> <<"t", "e", "s", "t">>],
   [path |->
      <<"/", "s", "r", "v", "/", "a", ".", "b", "_", "c", "-", "D", "9">>,
    folder |-> <<"a", "-", "b", "_", "c", "-", "D", "9">>]}

\* the values of one byte of randomBytes(3)
RandomByteValues == {0, 10, 171, 255}

\* the characters the replace() keeps: [a-zA-Z0-9_-]
NameChars ==
  {"a", "b", "c", "d", "e", "f", "g", "h", "i", "j", "k", "l", "m", "n",
   "o", "p", "q", "r", "s", "t", "u", "v", "w", "x", "y", "z", "A", "B",
   "C", "D", "E", "F", "G", "H", "I", "J", "K", "L", "M", "N", "O", "P",
   "Q", "R", "S", "T", "U", "V", "W", "X", "Y", "Z", "0", "1", "2", "3",
   "4", "5", "6", "7", "8", "9", "_", "-"}

HexDigits == <<"0", "1", "2", "3", "4", "5", "6", "7", "8", "9",
               "a", "b", "c", "d", "e", "f">>

\* path.basename(p): trailing slashes dropped, then what follows the last
\* slash
RECURSIVE StripSlashes(_)
StripSlashes(p) ==
  IF p # <<>> /\ p[Len(p)] = "/" THEN StripSlashes(SubSeq(p, 1, Len(p) - 1))
  ELSE p

RECURSIVE LastPart(_)
LastPart(p) ==
  IF p = <<>> THEN <<>>
  ELSE IF p[Len(p)] = "/" THEN <<>>
  ELSE Append(LastPart(SubSeq(p, 1, Len(p) - 1)), p[Len(p)])

Basename(p) == LastPart(StripSlashes(p))

\* .replace(/[^a-zA-Z0-9_-]/g, "-")
Sanitize(str) ==
  [i \in 1..Len(str) |-> IF str[i] \in NameChars THEN str[i] ELSE "-"]

\* Buffer.toString("hex"): two lowercase digits per byte
RECURSIVE ToHex(_)
ToHex(bytes) ==
  IF bytes = <<>> THEN <<>>
  ELSE <<HexDigits[(Head(bytes) \div 16) + 1], HexDigits[(Head(bytes) % 16) + 1]>>
         \o ToHex(Tail(bytes))

\* createTmuxSessionName(cwd): `${folder}-${suffix}-remote`
CreateTmuxSessionName(cwd, random) ==
  Sanitize(Basename(cwd)) \o <<"-">> \o ToHex(random)
    \o <<"-", "r", "e", "m", "o", "t", "e">>

(***************************************************************************)
(* Connection admission (ssh-server.ts 68-92, 176-185).                    *)
(***************************************************************************)
NoWrite == [data |-> 0, handle |-> NULL, live |-> FALSE]
NoResize == [cols |-> 0, rows |-> 0, handle |-> NULL, toCols |-> 0, toRows |-> 0]
NoName == [cwd |-> [path |-> <<>>, folder |-> <<>>], random |-> <<>>,
           name |-> <<>>]
\* the instances started for one port; an instance's number is its pid
Instances == {1, 2, 3}

\* isProcessAlive(pid): the process of that instance runs
IsProcessAlive(pc, pid) ==
  pid \in Instances /\ pc[pid] \in {"checked", "started", "running"}

\* index.ts: existingPid && isProcessAlive(existingPid) &&
\* existingPid !== process.pid
AlreadyRunning(file, pc, self) ==
  file # NULL /\ IsProcessAlive(pc, file) /\ file # self

NoConnect == [conn |-> 0, event |-> "", openBefore |-> 0, refused |-> FALSE]

\* the admitted connections that are open: neither failed nor closed
OpenConns == {c \in Conns : connState[c] = "open"}

\* if (activeConnections >= maxConnections): the connection is refused
AtConnectionLimit(active) == active >= MaxConnections

\* a plausible slip: a timer that is already running is left as it is
ResetIdleTimerKeep(c) ==
  idleTimer' = IF idleTimer[c] # NULL THEN idleTimer
               ELSE [idleTimer EXCEPT ![c] = now + DEFAULT_IDLE_TIMEOUT_MS]

\* resetIdleTimer(): clear the old timer, set one idleTimeoutMs from now
ResetIdleTimer(c) ==
  idleTimer' = [idleTimer EXCEPT ![c] = now + DEFAULT_IDLE_TIMEOUT_MS]

(***************************************************************************)
(* The watchdog (process-manager.ts 53-84).                                *)
(***************************************************************************)
\* a plausible slip: the exponent is one too small (1 s first)
BackoffDelayFromOne(n) ==
  IF 1000 * 2 ^ (n - 1) < 60000 THEN 1000 * 2 ^ (n - 1) ELSE 60000

\* const delay = Math.min(1000 * 2 ** restartCount, 60000)
BackoffDelay(n) == IF 1000 * 2 ^ n < 60000 THEN 1000 * 2 ^ n ELSE 60000

\* a plausible slip: the ceiling is tested one restart late
RestartsExceededLate(count) == count > MAX_RESTARTS + 1

\* if (restartCount > MAX_RESTARTS): give up
RestartsExceeded(count) == count > MAX_RESTARTS

\* a plausible slip: the flag is not tested again after the await
StopRequestedNever(flag) == FALSE

\* if (shutdownRequested) break, after each await of the loop
StopRequested(flag) == flag

\* a plausible slip: the watchdog does not wait for the process to exit
ProcHasExitedAlways(proc, live) == TRUE

\* `await proc.exited` has resolved: the process no longer runs
ProcHasExited(proc, live) == proc \notin live

\* a plausible slip: the session is not tested before the attach
RestartByAttachModeOnly(mode, name, sessions) == mode

\* if (isAttachMode && hasTmuxSession(currentSessionName)): attachTerminal,
\* else spawnTerminal
RestartByAttach(mode, name, sessions) == mode /\ name \in sessions

\* the top of the loop: while (!shutdownRequested), getProc(), if (!proc)
\* break; what the watchdog does next and the handle it awaits
WatchdogLoopTop(flag, proc) ==
  IF flag \/ proc = NULL THEN [pc |-> "done", proc |-> NULL]
  ELSE [pc |-> "awaitExit", proc |-> proc]

(***************************************************************************)
(* Initial state: the modules as loaded, before startServices.             *)
(***************************************************************************)
Init ==
  /\ terminal = NULL
  /\ shellProc = NULL
  /\ tmuxSession = ""
  /\ clients = {}
  /\ scrollbackChunks = <<>>
  /\ scrollbackSize = 0
  /\ pendingLaunch = 0
  /\ liveProcs = {}
  /\ procCount = 0
  /\ tmuxSessions = {}
  /\ sinkPhase = [s \in Sinks |-> "new"]
  /\ sinkWritten = [s \in Sinks |-> <<>>]
  /\ output = <<>>
  /\ clearedAt = 0
  /\ termSize = NoSize
  /\ sinkReg = [s \in Sinks |-> NoReg]
  /\ authFailures = EmptyMap
  /\ now = StartTime
  /\ ticks = 0
  /\ lastAuth = NoAuth
  /\ lockAt = [ip \in Ips |-> -1]
  /\ authLog = <<>>
  /\ listening = FALSE
  /\ activeConnections = 0
  /\ connState = [c \in Conns |-> "new"]
  /\ idleTimer = [c \in Conns |-> NULL]
  /\ lastConnect = NoConnect
  /\ shutdownRequested = FALSE
  /\ sshServer = "null"
  /\ currentSessionName = ""
  /\ isAttachMode = FALSE
  /\ svcPc = "init"
  /\ shPc = "idle"
  /\ wdPc = "off"
  /\ wdProc = NULL
  /\ restartCount = 0
  /\ wdDelay = 0
  /\ exited = FALSE
  /\ delays = <<>>
  /\ gaveUp = FALSE
  /\ restartsDone = 0
  /\ connStage = [c \in Conns |-> "none"]
  /\ connSink = [c \in Conns |-> "none"]
  /\ lastActivity = [c \in Conns |-> -1]
  /\ idleClosed = [c \in Conns |-> -1]
  /\ lastWrite = NoWrite
  /\ lastResize = NoResize
  /\ nameOut = NoName
  /\ pidFile = NULL
  /\ instPc = [i \in Instances |-> "off"]

(***************************************************************************)
(* Actions of the hub, driven by its callers.                              *)
(***************************************************************************)
\* a caller (startServices, the watchdog) starts a fresh session; the callers
\* do so only when no process is running
HubSpawn(name) ==
  /\ liveProcs = {}
  /\ procCount < MaxSpawns
  /\ SpawnTerminal(name)
  /\ UNCHANGED <<clients, sinkPhase, sinkWritten, output, sinkReg, authVars, sessVars, extVars, connVars, wdVars>>

\* a caller attaches to an existing session (callers check has-session first)
HubAttach(name) ==
  /\ liveProcs = {}
  /\ procCount < MaxSpawns
  /\ name \in tmuxSessions
  /\ AttachTerminal(name)
  /\ UNCHANGED <<clients, sinkPhase, sinkWritten, output, sinkReg, authVars, sessVars, extVars, connVars, wdVars>>

\* the process terminates; its tmux session ends with it (exit) or stays
\* (detach, kill of the client only)
ProcExit(h, sessionStays) ==
  /\ h \in liveProcs
  /\ liveProcs' = liveProcs \ {h}
  /\ tmuxSessions' = IF sessionStays THEN tmuxSessions
                     ELSE tmuxSessions \ {tmuxSession}
  /\ UNCHANGED <<terminal, shellProc, tmuxSession, clients, scrollbackChunks,
                 scrollbackSize, pendingLaunch, procCount, sinkPhase,
                 sinkWritten, output, clearedAt, termSize, sinkReg, authVars, sessVars, extVars, connVars, wdVars>>

\* the PTY of a running process delivers a chunk
ProcData(h, len) ==
  /\ h \in liveProcs
  /\ Len(output) < MaxChunks
  /\ TerminalData(<<[id |-> Len(output) + 1, len |-> len]>>)
  /\ UNCHANGED <<terminal, shellProc, tmuxSession, clients, pendingLaunch,
                 liveProcs, procCount, tmuxSessions, sinkPhase, clearedAt, termSize,
                 sinkReg, authVars, sessVars, extVars, connVars, wdVars>>

\* ssh-server.ts session.on("shell"): wrap the stream as a TerminalClient
\* and addClient it (startServices starts the SSH server after the terminal)
ShellStart(s) ==
  /\ procCount > 0
  /\ sinkPhase[s] = "new"
  /\ sinkPhase' = [sinkPhase EXCEPT ![s] = "open"]
  /\ AddClient(s)
  /\ UNCHANGED <<terminal, shellProc, tmuxSession, scrollbackChunks,
                 scrollbackSize, pendingLaunch, liveProcs, procCount,
                 tmuxSessions, output, clearedAt, termSize, authVars, sessVars, extVars, connVars, wdVars>>

\* ssh-server.ts stream.on("error"): removeClient
StreamError(s) ==
  /\ sinkPhase[s] = "open"
  /\ sinkPhase' = [sinkPhase EXCEPT ![s] = "errored"]
  /\ RemoveClient(s)
  /\ UNCHANGED <<terminal, shellProc, tmuxSession, scrollbackChunks,
                 scrollbackSize, pendingLaunch, liveProcs, procCount,
                 tmuxSessions, sinkWritten, output, clearedAt, termSize, sinkReg,
                 authVars, sessVars, extVars, connVars, wdVars>>

\* ssh-server.ts stream.on("close"): removeClient (also after an error)
StreamClose(s) ==
  /\ sinkPhase[s] \in {"open", "errored"}
  /\ sinkPhase' = [sinkPhase EXCEPT ![s] = "closed"]
  /\ RemoveClient(s)
  /\ UNCHANGED <<terminal, shellProc, tmuxSession, scrollbackChunks,
                 scrollbackSize, pendingLaunch, liveProcs, procCount,
                 tmuxSessions, sinkWritten, output, clearedAt, termSize, sinkReg,
                 authVars, sessVars, extVars, connVars, wdVars>>

NextHub ==
  \/ HubSpawn(GeneratedName)
  \/ HubAttach(GeneratedName)
  \/ \E h \in liveProcs, stays \in BOOLEAN : ProcExit(h, stays)
  \/ \E h \in liveProcs, len \in ChunkLens : ProcData(h, len)
  \/ \E s \in Sinks : ShellStart(s)
  \/ \E s \in Sinks : StreamError(s)
  \/ \E s \in Sinks : StreamClose(s)

SpecHub == Init /\ [][NextHub]_vars

(***************************************************************************)
(* The terminal hub driven through its exports: spawn, attach, kill,       *)
(* write and resize in any order.                                          *)
(***************************************************************************)
\* a caller kills the terminal; the process gets SIGTERM and exits later
HubKill(keepSession) ==
  /\ procCount > 0
  /\ terminal # NULL
  /\ KillTerminal(keepSession)
  /\ UNCHANGED <<tmuxSession, clients, scrollbackChunks, scrollbackSize,
                 pendingLaunch, liveProcs, procCount, sinkPhase, sinkWritten,
                 output, clearedAt, termSize, sinkReg, authVars, connVars, wdVars,
                 sessVars, extVars>>

\* a caller resizes the terminal
HubResize(cols, rows) ==
  /\ ResizeTerminal(cols, rows)
  /\ UNCHANGED <<terminal, shellProc, tmuxSession, clients, scrollbackChunks,
                 scrollbackSize, pendingLaunch, liveProcs, procCount,
                 tmuxSessions, sinkPhase, sinkWritten, output, clearedAt,
                 sinkReg,
                 authVars, connVars, wdVars, sessVars, lastWrite,
                 nameOut, pidFile, instPc>>

\* a caller writes input to the terminal
HubWrite(data) ==
  /\ WriteToTerminal(data)
  /\ UNCHANGED <<hubVars, authVars, connVars, wdVars, sessVars, lastResize,
                 nameOut, pidFile, instPc>>

NextExports ==
  \/ HubSpawn(GeneratedName)
  \/ HubAttach(GeneratedName)
  \/ \E h \in liveProcs, stays \in BOOLEAN : ProcExit(h, stays)
  \/ \E keepSession \in BOOLEAN : HubKill(keepSession)
  \/ \E cols \in SizeRequests, rows \in SizeRequests : HubResize(cols, rows)
  \/ \E data \in Frames : HubWrite(data)

SpecExports == Init /\ [][NextExports]_vars

(***************************************************************************)
(* Session names.                                                          *)
(***************************************************************************)
\* startServices names the session of a working directory
CreateName(cwd, random) ==
  /\ nameOut' = [cwd |-> cwd, random |-> random,
                 name |-> CreateTmuxSessionName(cwd.path, random)]
  /\ UNCHANGED <<hubVars, authVars, connVars, wdVars, sessVars, lastWrite,
                 lastResize, pidFile, instPc>>

NextNames ==
  \E cwd \in Cwds, b1 \in RandomByteValues, b2 \in RandomByteValues,
     b3 \in RandomByteValues : CreateName(cwd, <<b1, b2, b3>>)

SpecNames == Init /\ [][NextNames]_vars

(***************************************************************************)
(* Instances on one port and the PID marker (index.ts 55-61,               *)
(* process-manager.ts 118, 179).                                           *)
(***************************************************************************)
\* index.ts: read the marker and exit if another instance is alive
InstCheck(i) ==
  /\ instPc[i] = "off"
  /\ instPc' = [instPc EXCEPT ![i] =
                  IF AlreadyRunning(pidFile, instPc, i) THEN "refused"
                  ELSE "checked"]
  /\ UNCHANGED <<hubVars, authVars, connVars, wdVars, sessVars, lastWrite,
                 lastResize, nameOut, pidFile>>

\* startServices: the terminal is started and the SSH server created
InstStart(i) ==
  /\ instPc[i] = "checked"
  /\ instPc' = [instPc EXCEPT ![i] = "started"]
  /\ UNCHANGED <<hubVars, authVars, connVars, wdVars, sessVars, lastWrite,
                 lastResize, nameOut, pidFile>>

\* startServices: await writePid(`wrapper-${port}`, process.pid)
InstWritePid(i) ==
  /\ instPc[i] = "started"
  /\ pidFile' = i
  /\ instPc' = [instPc EXCEPT ![i] = "running"]
  /\ UNCHANGED <<hubVars, authVars, connVars, wdVars, sessVars, lastWrite,
                 lastResize, nameOut>>

\* shutdown(): removePid unlinks the marker, then process.exit(0)
InstShutdown(i) ==
  /\ instPc[i] = "running"
  /\ pidFile' = NULL
  /\ instPc' = [instPc EXCEPT ![i] = "stopped"]
  /\ UNCHANGED <<hubVars, authVars, connVars, wdVars, sessVars, lastWrite,
                 lastResize, nameOut>>

\* the process is killed or crashes: nothing is cleaned up
InstDie(i) ==
  /\ instPc[i] \in {"checked", "started", "running"}
  /\ instPc' = [instPc EXCEPT ![i] = "dead"]
  /\ UNCHANGED <<hubVars, authVars, connVars, wdVars, sessVars, lastWrite,
                 lastResize, nameOut, pidFile>>

NextInstances ==
  \/ \E i \in Instances : InstCheck(i)
  \/ \E i \in Instances : InstStart(i)
  \/ \E i \in Instances : InstWritePid(i)
  \/ \E i \in Instances : InstShutdown(i)
  \/ \E i \in Instances : InstDie(i)

SpecInstances == Init /\ [][NextInstances]_vars

(***************************************************************************)
(* The hub with a client whose write fails.                                *)
(***************************************************************************)
\* the PTY delivers a chunk and the write to the registered client `bad`
\* throws
ProcDataThrows(h, len, bad) ==
  /\ h \in liveProcs
  /\ Len(output) < MaxChunks
  /\ bad \in clients
  /\ TerminalDataThrows(<<[id |-> Len(output) + 1, len |-> len]>>, bad)
  /\ UNCHANGED <<terminal, shellProc, tmuxSession, clients, pendingLaunch,
                 liveProcs, procCount, tmuxSessions, sinkPhase, clearedAt, termSize,
                 sinkReg, authVars, connVars, wdVars, sessVars, extVars>>

NextBroadcast ==
  \/ NextHub
  \/ \E h \in liveProcs, len \in ChunkLens, bad \in Sinks :
       ProcDataThrows(h, len, bad)

SpecBroadcast == Init /\ [][NextBroadcast]_vars

(***************************************************************************)
(* Actions of the authentication handler.                                  *)
(***************************************************************************)
\* the clock moves on
Tick(d) ==
  /\ ticks < MaxTicks
  /\ now' = now + d
  /\ ticks' = ticks + 1
  /\ UNCHANGED <<hubVars, sessVars, extVars, authFailures, lastAuth, lockAt, authLog, connVars,
                 wdVars>>

\* one "authentication" event on a connection from `ip` to a server
\* configured with `expected`
AuthStep(ip, expected, method, password) ==
  LET r == OnAuthentication(authFailures, expected, ip, method, password, now) IN
  /\ authFailures' = r.map
  /\ lastAuth' = [ip |-> ip, noAuth |-> expected.isNull, method |-> method,
                  password |-> password, ctx |-> r.ctx, log |-> r.log,
                  compared |-> r.compared, at |-> now]
  /\ lockAt' = IF r.log = "failed-locked" THEN [lockAt EXCEPT ![ip] = now]
               ELSE lockAt

Authenticate(ip, expected, method, password) ==
  /\ AuthStep(ip, expected, method, password)
  /\ UNCHANGED <<hubVars, sessVars, extVars, now, ticks, authLog, connVars, wdVars>>

\* the same event, kept in the attempt log
AuthenticateLogged(ip, expected, method, password) ==
  /\ Len(authLog) < MaxAttempts
  /\ AuthStep(ip, expected, method, password)
  /\ authLog' = Append(authLog, [t |-> now, right |-> password = expected.text,
                                 ctx |-> lastAuth'.ctx, log |-> lastAuth'.log])
  /\ UNCHANGED <<hubVars, sessVars, extVars, now, ticks, connVars, wdVars>>

NextAuth ==
  \/ \E d \in TickSteps : Tick(d)
  \/ \E ip \in Ips, expected \in {NoPassword, Password(Secret)},
        method \in Methods, password \in Supplied :
       Authenticate(ip, expected, method, password)

SpecAuth == Init /\ [][NextAuth]_vars

\* one source trying passwords against a server with a password configured
NextLockout ==
  \/ \E d \in TickSteps : Tick(d)
  \/ \E password \in {<<97, 98>>, <<97, 99>>} :
       AuthenticateLogged("10.0.0.1", Password(Secret), "password", password)

SpecLockout == Init /\ [][NextLockout]_vars

(***************************************************************************)
(* Actions of startServices (process-manager.ts 144-213).                  *)
(***************************************************************************)
\* --attach <name> and the session exists: attach mode
StartAttach(name) ==
  /\ svcPc = "init"
  /\ name \in tmuxSessions
  /\ isAttachMode' = TRUE
  /\ currentSessionName' = name
  /\ AttachTerminal(name)
  /\ svcPc' = "starting"
  /\ UNCHANGED <<clients, sinkPhase, sinkWritten, output, sinkReg, authVars, sessVars, extVars,
                 connVars, shutdownRequested, sshServer, shPc, wdPc, wdProc,
                 restartCount, wdDelay, exited, delays, gaveUp, restartsDone>>

\* --attach <name> and the session is missing: ask the operator
StartAttachMissing(name) ==
  /\ svcPc = "init"
  /\ name \notin tmuxSessions
  /\ svcPc' = "startPrompt"
  /\ UNCHANGED <<hubVars, authVars, sessVars, extVars, connVars, shutdownRequested, sshServer,
                 currentSessionName, isAttachMode, shPc, wdPc, wdProc,
                 restartCount, wdDelay, exited, delays, gaveUp, restartsDone>>

\* "Create a new session instead?": no exits, yes starts a fresh session
StartPromptAnswer(create) ==
  /\ svcPc = "startPrompt"
  /\ IF create
       THEN /\ currentSessionName' = GeneratedName
            /\ SpawnTerminal(GeneratedName)
            /\ svcPc' = "starting"
            /\ UNCHANGED exited
       ELSE /\ exited' = TRUE
            /\ svcPc' = "aborted"
            /\ UNCHANGED <<terminal, shellProc, tmuxSession, scrollbackChunks,
                           scrollbackSize, pendingLaunch, liveProcs, procCount,
                           tmuxSessions, clearedAt, termSize, currentSessionName>>
  /\ UNCHANGED <<clients, sinkPhase, sinkWritten, output, sinkReg, authVars, sessVars, extVars,
                 connVars, shutdownRequested, sshServer, isAttachMode, shPc,
                 wdPc, wdProc, restartCount, wdDelay, delays, gaveUp,
                 restartsDone>>

\* no --attach: a fresh session
StartFresh ==
  /\ svcPc = "init"
  /\ currentSessionName' = GeneratedName
  /\ SpawnTerminal(GeneratedName)
  /\ svcPc' = "starting"
  /\ UNCHANGED <<clients, sinkPhase, sinkWritten, output, sinkReg, authVars, sessVars, extVars,
                 connVars, shutdownRequested, sshServer, isAttachMode, shPc,
                 wdPc, wdProc, restartCount, wdDelay, exited, delays, gaveUp,
                 restartsDone>>

\* the SSH server listens, the signal handlers are registered and the
\* watchdog runs to its first await
ServicesUp ==
  /\ svcPc = "starting"
  /\ svcPc' = "running"
  /\ sshServer' = "server"
  /\ listening' = TRUE
  /\ activeConnections' = 0
  /\ wdPc' = WatchdogLoopTop(shutdownRequested, shellProc).pc
  /\ wdProc' = WatchdogLoopTop(shutdownRequested, shellProc).proc
  /\ restartCount' = 0
  /\ UNCHANGED <<hubVars, authVars, sessVars, extVars, connState, idleTimer, lastConnect,
                 shutdownRequested, currentSessionName, isAttachMode, shPc,
                 wdDelay, exited, delays, gaveUp, restartsDone>>

\* the operator creates the tmux session of his own outside the program
OperatorSession ==
  /\ ~exited
  /\ OperatorName \notin tmuxSessions
  /\ tmuxSessions' = tmuxSessions \cup {OperatorName}
  /\ UNCHANGED <<terminal, shellProc, tmuxSession, clients, scrollbackChunks,
                 scrollbackSize, pendingLaunch, liveProcs, procCount, sinkPhase,
                 sinkWritten, output, clearedAt, termSize, sinkReg, authVars, sessVars, extVars, connVars,
                 wdVars>>

(***************************************************************************)
(* Actions of the watchdog.                                                *)
(***************************************************************************)
\* `await proc.exited` resolves: stop, give up, or start the backoff
WatchdogProcExited ==
  /\ ~exited
  /\ wdPc = "awaitExit"
  /\ ProcHasExited(wdProc, liveProcs)
  /\ IF StopRequested(shutdownRequested)
       THEN /\ wdPc' = "done"
            /\ UNCHANGED <<restartCount, wdDelay, delays, gaveUp>>
       ELSE /\ restartCount' = restartCount + 1
            /\ IF RestartsExceeded(restartCount + 1)
                 THEN /\ wdPc' = "done"
                      /\ gaveUp' = TRUE
                      /\ UNCHANGED <<wdDelay, delays>>
                 ELSE /\ wdPc' = "sleep"
                      /\ wdDelay' = BackoffDelay(restartCount + 1)
                      /\ delays' = Append(delays, BackoffDelay(restartCount + 1))
                      /\ UNCHANGED gaveUp
  /\ UNCHANGED <<hubVars, authVars, sessVars, extVars, connVars, shutdownRequested, sshServer,
                 currentSessionName, isAttachMode, svcPc, shPc, wdProc, exited,
                 restartsDone>>

\* `await Bun.sleep(delay)` resolves: stop, or restart the terminal and go
\* round the loop to the next await
WatchdogWake ==
  /\ ~exited
  /\ wdPc = "sleep"
  /\ IF StopRequested(shutdownRequested)
       THEN /\ wdPc' = "done"
            /\ UNCHANGED <<terminal, shellProc, tmuxSession, scrollbackChunks,
                           scrollbackSize, pendingLaunch, liveProcs, procCount,
                           tmuxSessions, clearedAt, termSize, wdProc, restartsDone>>
       ELSE /\ IF RestartByAttach(isAttachMode, currentSessionName, tmuxSessions)
                 THEN AttachTerminal(currentSessionName)
                 ELSE SpawnTerminal(currentSessionName)
            /\ restartsDone' = restartsDone + 1
            /\ wdPc' = WatchdogLoopTop(shutdownRequested, shellProc').pc
            /\ wdProc' = WatchdogLoopTop(shutdownRequested, shellProc').proc
  /\ UNCHANGED <<clients, sinkPhase, sinkWritten, output, sinkReg, authVars, sessVars, extVars,
                 connVars, shutdownRequested, sshServer, currentSessionName,
                 isAttachMode, svcPc, shPc, restartCount, wdDelay, exited,
                 delays, gaveUp>>

\* the terminal process of the run terminates
TerminalExit(stays) ==
  /\ ~exited
  /\ \E h \in liveProcs : ProcExit(h, stays)

(***************************************************************************)
(* Actions of shutdown() (process-manager.ts 88-122).                      *)
(***************************************************************************)
\* SIGINT or SIGTERM: a second signal returns at once; the first sets the
\* flag and closes the server, then awaits the close or the grace timer
ShutdownSignal ==
  /\ ~exited
  /\ svcPc = "running"
  /\ ~shutdownRequested
  /\ shutdownRequested' = TRUE
  /\ listening' = FALSE
  /\ shPc' = "closing"
  /\ UNCHANGED <<hubVars, authVars, sessVars, extVars, activeConnections, connState, idleTimer,
                 lastConnect, sshServer, currentSessionName, isAttachMode,
                 svcPc, wdPc, wdProc, restartCount, wdDelay, exited, delays,
                 gaveUp, restartsDone>>

\* the rest of shutdown() from the kill on: killTerminal, removePid,
\* process.exit(0)
ShutdownFinish(keepSession) ==
  /\ KillTerminal(keepSession)
  /\ shPc' = "done"
  /\ exited' = TRUE

\* the server has closed, or SHUTDOWN_GRACE_MS have passed; in attach mode
\* the session is kept and shutdown() runs on to the end
ShutdownClosed ==
  /\ ~exited
  /\ shPc = "closing"
  /\ sshServer' = "null"
  /\ IF isAttachMode
       THEN ShutdownFinish(TRUE)
       ELSE /\ shPc' = "prompt"
            /\ UNCHANGED <<terminal, shellProc, tmuxSessions, exited>>
  /\ UNCHANGED <<tmuxSession, clients, scrollbackChunks, scrollbackSize,
                 pendingLaunch, liveProcs, procCount, sinkPhase, sinkWritten,
                 output, clearedAt, termSize, sinkReg, authVars, sessVars, extVars, connVars,
                 shutdownRequested, currentSessionName, isAttachMode, svcPc,
                 wdPc, wdProc, restartCount, wdDelay, delays, gaveUp,
                 restartsDone>>

\* the operator answers "Kill tmux session?"
ShutdownAnswer(kill) ==
  /\ ~exited
  /\ shPc = "prompt"
  /\ ShutdownFinish(~kill)
  /\ UNCHANGED <<tmuxSession, clients, scrollbackChunks, scrollbackSize,
                 pendingLaunch, liveProcs, procCount, sinkPhase, sinkWritten,
                 output, clearedAt, termSize, sinkReg, authVars, sessVars, extVars, connVars,
                 shutdownRequested, sshServer, currentSessionName,
                 isAttachMode, svcPc, wdPc, wdProc, restartCount, wdDelay,
                 delays, gaveUp, restartsDone>>

NextWatchdog ==
  \/ StartAttach(OperatorName)
  \/ StartAttachMissing(OperatorName)
  \/ \E create \in BOOLEAN : StartPromptAnswer(create)
  \/ StartFresh
  \/ ServicesUp
  \/ OperatorSession
  \/ WatchdogProcExited
  \/ WatchdogWake
  \/ \E stays \in BOOLEAN : TerminalExit(stays)
  \/ ShutdownSignal
  \/ ShutdownClosed
  \/ \E kill \in BOOLEAN : ShutdownAnswer(kill)

SpecWatchdog == Init /\ [][NextWatchdog]_vars

(***************************************************************************)
(* The watchdog when a restart fails.                                      *)
(***************************************************************************)
\* `await Bun.sleep(delay)` resolves and spawnTerminal/attachTerminal
\* throws: at once when tmux is not found, or from Bun.spawn, after
\* spawnTerminal has killed a leftover session.  Nothing in watchdog(),
\* startServices or index.ts catches it: the rejection reaches the
\* top-level await and ends the process.
WatchdogWakeThrows(tmuxFound) ==
  /\ ~exited
  /\ wdPc = "sleep"
  /\ ~StopRequested(shutdownRequested)
  /\ tmuxSessions' =
       IF tmuxFound /\ ~RestartByAttach(isAttachMode, currentSessionName,
                                        tmuxSessions)
         THEN tmuxSessions \ {currentSessionName} ELSE tmuxSessions
  /\ wdPc' = "threw"
  /\ exited' = TRUE
  /\ UNCHANGED <<terminal, shellProc, tmuxSession, clients, scrollbackChunks,
                 scrollbackSize, pendingLaunch, liveProcs, procCount, sinkPhase,
                 sinkWritten, output, clearedAt, termSize, sinkReg, authVars, sessVars,
                 extVars, connVars, shutdownRequested, sshServer,
                 currentSessionName, isAttachMode, svcPc, shPc, wdProc,
                 restartCount, wdDelay, delays, gaveUp, restartsDone>>

NextRestartFails ==
  \/ NextWatchdog
  \/ \E tmuxFound \in BOOLEAN : WatchdogWakeThrows(tmuxFound)

SpecRestartFails == Init /\ [][NextRestartFails]_vars

\* ssh-server.ts session.on("window-change"): a client of the running SSH
\* server changes its window; accept, then resizeTerminal(info.cols, info.rows)
ClientResize(cols, rows) ==
  /\ listening
  /\ ~exited
  /\ ResizeTerminal(cols, rows)
  /\ UNCHANGED <<terminal, shellProc, tmuxSession, clients, scrollbackChunks,
                 scrollbackSize, pendingLaunch, liveProcs, procCount,
                 tmuxSessions, sinkPhase, sinkWritten, output, clearedAt,
                 sinkReg, authVars, connVars, wdVars, sessVars, lastWrite,
                 nameOut, pidFile, instPc>>

\* the watchdog together with the clients' resize requests
NextResize ==
  \/ NextWatchdog
  \/ \E cols \in SizeRequests, rows \in SizeRequests : ClientResize(cols, rows)

SpecResize == Init /\ [][NextResize]_vars

\* The awaits of the watchdog and of shutdown() resolve once they can: a
\* resolved promise and an expired timer are run by the event loop, the
\* close of the server is raced with the grace timer, and the operator
\* answers the prompt shutdown() blocks on.
SpecWatchdogLive ==
  /\ SpecWatchdog
  /\ WF_vars(WatchdogProcExited)
  /\ WF_vars(WatchdogWake)
  /\ WF_vars(ShutdownClosed)
  /\ WF_vars(\E kill \in BOOLEAN : ShutdownAnswer(kill))

(***************************************************************************)
(* Actions of a connection (ssh-server.ts 68-92, 176-185).                 *)
(***************************************************************************)
\* a plausible slip: the connection is counted before the limit is tested
ConnectCountFirst(c) ==
  /\ listening
  /\ connState[c] = "new"
  /\ lastConnect' = [conn |-> c, event |-> "connect",
                     openBefore |-> Cardinality(OpenConns),
                     refused |-> AtConnectionLimit(activeConnections)]
  /\ activeConnections' = activeConnections + 1
  /\ IF AtConnectionLimit(activeConnections)
       THEN /\ connState' = [connState EXCEPT ![c] = "refused"]
            /\ UNCHANGED <<idleTimer, connStage, lastActivity>>
       ELSE /\ connState' = [connState EXCEPT ![c] = "open"]
            /\ ResetIdleTimer(c)
            /\ connStage' = [connStage EXCEPT ![c] = "pending"]
            /\ lastActivity' = [lastActivity EXCEPT ![c] = now]
  /\ UNCHANGED <<hubVars, authVars, listening, wdVars, connSink, idleClosed,
                 extVars>>

\* the Server's connection callback: refuse at the limit, else count the
\* connection, start its idle timer and register its handlers
Connect(c) ==
  /\ listening
  /\ connState[c] = "new"
  /\ lastConnect' = [conn |-> c, event |-> "connect",
                     openBefore |-> Cardinality(OpenConns),
                     refused |-> AtConnectionLimit(activeConnections)]
  /\ IF AtConnectionLimit(activeConnections)
       THEN /\ connState' = [connState EXCEPT ![c] = "refused"]
            /\ UNCHANGED <<activeConnections, idleTimer, connStage,
                           lastActivity>>
       ELSE /\ connState' = [connState EXCEPT ![c] = "open"]
            /\ activeConnections' = activeConnections + 1
            /\ ResetIdleTimer(c)
            /\ connStage' = [connStage EXCEPT ![c] = "pending"]
            /\ lastActivity' = [lastActivity EXCEPT ![c] = now]
  /\ UNCHANGED <<hubVars, authVars, listening, wdVars, connSink, idleClosed,
                 extVars>>

\* client.on("error"): clear the idle timer, activeConnections--
ConnError(c) ==
  /\ connState[c] = "open"
  /\ connState' = [connState EXCEPT ![c] = "errored"]
  /\ activeConnections' = activeConnections - 1
  /\ idleTimer' = [idleTimer EXCEPT ![c] = NULL]
  /\ lastConnect' = [conn |-> c, event |-> "error",
                     openBefore |-> Cardinality(OpenConns), refused |-> FALSE]
  /\ UNCHANGED <<hubVars, authVars, listening, wdVars, sessVars, extVars>>

\* client.on("close"): clear the idle timer, activeConnections--; the
\* socket closes after an error and after client.end() as well
ConnClose(c) ==
  /\ connState[c] \in {"open", "errored", "ending"}
  /\ connState' = [connState EXCEPT ![c] = "closed"]
  /\ activeConnections' = activeConnections - 1
  /\ idleTimer' = [idleTimer EXCEPT ![c] = NULL]
  /\ lastConnect' = [conn |-> c, event |-> "close",
                     openBefore |-> Cardinality(OpenConns), refused |-> FALSE]
  /\ UNCHANGED <<hubVars, authVars, listening, wdVars, sessVars, extVars>>

\* the authentication handler accepted: client.on("ready") registers the
\* session handler
ConnReady(c) ==
  /\ ~exited
  /\ connState[c] = "open"
  /\ connStage[c] = "pending"
  /\ connStage' = [connStage EXCEPT ![c] = "ready"]
  /\ UNCHANGED <<hubVars, authVars, connVars, wdVars, connSink, lastActivity,
                 idleClosed, extVars>>

\* session.on("shell"): wrap the stream as a TerminalClient, addClient it
\* and register the stream handlers
ConnShell(c, s) ==
  /\ ~exited
  /\ connState[c] = "open"
  /\ connStage[c] = "ready"
  /\ sinkPhase[s] = "new"
  /\ sinkPhase' = [sinkPhase EXCEPT ![s] = "open"]
  /\ AddClient(s)
  /\ connStage' = [connStage EXCEPT ![c] = "shell"]
  /\ connSink' = [connSink EXCEPT ![c] = s]
  /\ UNCHANGED <<terminal, shellProc, tmuxSession, scrollbackChunks,
                 scrollbackSize, pendingLaunch, liveProcs, procCount,
                 tmuxSessions, output, clearedAt, termSize, authVars, connVars, wdVars,
                 lastActivity, idleClosed, extVars>>

\* stream.on("data"): resetIdleTimer(), then writeToTerminal(data)
ConnData(c, data) ==
  /\ ~exited
  /\ connState[c] = "open"
  /\ connStage[c] = "shell"
  /\ sinkPhase[connSink[c]] = "open"
  /\ ResetIdleTimer(c)
  /\ lastActivity' = [lastActivity EXCEPT ![c] = now]
  /\ WriteToTerminal(data)
  /\ UNCHANGED <<hubVars, authVars, listening, activeConnections, connState,
                 lastConnect, wdVars, connStage, connSink, idleClosed,
                 lastResize, nameOut, pidFile, instPc>>

\* session.on("window-change"): accept, resizeTerminal(info.cols, info.rows)
ConnResize(c, cols, rows) ==
  /\ ~exited
  /\ connState[c] = "open"
  /\ connStage[c] \in {"ready", "shell"}
  /\ ResizeTerminal(cols, rows)
  /\ UNCHANGED <<terminal, shellProc, tmuxSession, clients, scrollbackChunks,
                 scrollbackSize, pendingLaunch, liveProcs, procCount,
                 tmuxSessions, sinkPhase, sinkWritten, output, clearedAt,
                 sinkReg,
                 authVars, connVars, wdVars, sessVars, lastWrite,
                 nameOut, pidFile, instPc>>

NextConn ==
  \/ StartFresh
  \/ ServicesUp
  \/ \E c \in Conns : Connect(c)
  \/ \E c \in Conns : ConnError(c)
  \/ \E c \in Conns : ConnClose(c)
  \/ \E c \in Conns : ConnReady(c)
  \/ \E c \in Conns, s \in Sinks : ConnShell(c, s)

SpecConn == Init /\ [][NextConn]_vars

(***************************************************************************)
(* Idle connections: the clock and the idle timers (ssh-server.ts 81-92).  *)
(***************************************************************************)
\* the clock moves on, up to the next idle timer that is due: a timer is
\* run when its time has come
IdleTick(d) ==
  /\ ticks < MaxIdleTicks
  /\ \A c \in Conns :
       (connState[c] = "open" /\ idleTimer[c] # NULL) => now + d <= idleTimer[c]
  /\ now' = now + d
  /\ ticks' = ticks + 1
  /\ UNCHANGED <<hubVars, authFailures, lastAuth, lockAt, authLog, connVars,
                 wdVars, sessVars, extVars>>

\* a plausible slip: the callback ends every open connection
IdleFireAll(c) ==
  /\ ~exited
  /\ connState[c] = "open"
  /\ idleTimer[c] # NULL
  /\ now >= idleTimer[c]
  /\ connState' = [d \in Conns |->
                     IF connState[d] = "open" THEN "ending" ELSE connState[d]]
  /\ idleClosed' = [idleClosed EXCEPT ![c] = now]
  /\ UNCHANGED <<hubVars, authVars, listening, activeConnections, idleTimer,
                 lastConnect, wdVars, connStage, connSink, lastActivity,
                 extVars>>

\* the idle timer's callback: log, client.end()
IdleFire(c) ==
  /\ ~exited
  /\ connState[c] = "open"
  /\ idleTimer[c] # NULL
  /\ now >= idleTimer[c]
  /\ connState' = [connState EXCEPT ![c] = "ending"]
  /\ idleClosed' = [idleClosed EXCEPT ![c] = now]
  /\ UNCHANGED <<hubVars, authVars, listening, activeConnections, idleTimer,
                 lastConnect, wdVars, connStage, connSink, lastActivity,
                 extVars>>

\* the connections followed through their idle time
IdleConns == {1, 2}

NextIdle ==
  \/ StartFresh
  \/ ServicesUp
  \/ \E c \in IdleConns : Connect(c)
  \/ \E c \in IdleConns : ConnReady(c)
  \/ \E c \in IdleConns : ConnShell(c, IF c = 1 THEN "s1" ELSE "s2")
  \/ \E c \in IdleConns : ConnData(c, 1)
  \/ \E d \in IdleSteps : IdleTick(d)
  \/ \E c \in IdleConns : IdleFire(c)
  \/ \E c \in IdleConns : ConnClose(c)

SpecIdle == Init /\ [][NextIdle]_vars

(***************************************************************************)
(* The relay as a whole: the services, the watchdog, shutdown, and one     *)
(* client that connects, opens a shell and types.                          *)
(***************************************************************************)
RelayConn == 1
RelaySink == "s1"

NextRelay ==
  \/ NextWatchdog
  \/ Connect(RelayConn)
  \/ ConnReady(RelayConn)
  \/ ConnShell(RelayConn, RelaySink)
  \/ \E data \in Frames : ConnData(RelayConn, data)
  \/ ConnClose(RelayConn)
  \/ StreamClose(RelaySink)

SpecRelay == Init /\ [][NextRelay]_vars

\* the data callback of the PTY while the wrapper runs
RelayProcData(h) ==
  /\ ~exited
  /\ ProcData(h, 262144)

\* the terminal process of the run terminates, MaxExits times at most
RelayTerminalExit(stays) ==
  /\ restartsDone < MaxExits
  /\ TerminalExit(stays)

\* the relay with the output of its terminal processes: a start (fresh or
\* by attach), the watchdog's restarts, one client that connects, opens a
\* shell and types, and the chunks the processes deliver
NextRelayOutput ==
  \/ OperatorSession
  \/ StartAttach(OperatorName)
  \/ StartFresh
  \/ ServicesUp
  \/ \E stays \in BOOLEAN : RelayTerminalExit(stays)
  \/ WatchdogProcExited
  \/ WatchdogWake
  \/ Connect(RelayConn)
  \/ ConnReady(RelayConn)
  \/ ConnShell(RelayConn, RelaySink)
  \/ \E data \in Frames : ConnData(RelayConn, data)
  \/ StreamClose(RelaySink)
  \/ \E h \in liveProcs : RelayProcData(h)

SpecRelayOutput == Init /\ [][NextRelayOutput]_vars

(***************************************************************************)
(* Properties of connection admission.                                     *)
(***************************************************************************)
\* C6: a connection is refused exactly when the number of open admitted
\* connections is at least maxConnections, and the number of open admitted
\* connections never exceeds maxConnections, whatever the sequence of
\* connect, error and close events.
C6_AdmissionCap ==
  /\ Cardinality(OpenConns) <= MaxConnections
  /\ lastConnect.event = "connect" =>
       (lastConnect.refused <=> lastConnect.openBefore >= MaxConnections)

\* the connections that hold a registered sink: authenticated, shell
\* started, stream open
WithSink ==
  {c \in Conns : /\ connState[c] = "open"
                 /\ connStage[c] = "shell"
                 /\ connSink[c] \in clients}

\* C20: only connections with a registered sink count against the cap:
\* a connection is refused only when maxConnections connections hold a
\* sink, so refused connections and connections still pending
\* authentication take no capacity from others.
C20_CapCountsSinks ==
  (lastConnect.event = "connect" /\ lastConnect.refused) =>
    Cardinality(WithSink) >= MaxConnections

(***************************************************************************)
(* Properties of the watchdog.                                             *)
(***************************************************************************)
\* the delays of restart attempts 1..10, in milliseconds
BackoffTable ==
  <<2000, 4000, 8000, 16000, 32000, 60000, 60000, 60000, 60000, 60000>>

\* C8: the delay before restart attempt n (restartCount after the
\* increment, 1..10) is min(1000 * 2^n, 60000) ms: 2000, 4000, 8000, 16000
\* for attempts 1..4, the capped 60000 for attempt 7; it never decreases
\* with n and never exceeds 60000 ms.
C8_BackoffSchedule ==
  /\ Len(delays) <= Len(BackoffTable)
  /\ \A n \in 1..Len(delays) :
       /\ delays[n] = BackoffTable[n]
       /\ delays[n] <= 60000
       /\ n > 1 => delays[n - 1] <= delays[n]
  /\ wdPc = "sleep" =>
       /\ restartCount = Len(delays)
       /\ wdDelay = delays[restartCount]

\* C8: the watchdog sleeps the capped delay before restart attempt 7.
C8_Witness ==
  /\ wdPc = "sleep"
  /\ restartCount = 7
  /\ wdDelay = 60000
  /\ delays[4] = 16000

\* C9: the watchdog restarts the terminal at most MAX_RESTARTS = 10 times
\* in a run; restartCount only grows; the 11th termination makes it give
\* up, after which it has stopped and restarts nothing.
C9_RetryCeiling ==
  /\ [](/\ restartsDone <= 10
        /\ restartsDone <= restartCount
        /\ gaveUp <=> restartCount = 11
        /\ gaveUp => restartsDone = 10 /\ wdPc = "done")
  /\ [][restartCount' >= restartCount]_vars
  /\ [][gaveUp => /\ gaveUp'
                   /\ wdPc' = "done"
                   /\ restartsDone' = restartsDone
                   /\ procCount' = procCount]_vars

\* C9: the terminal has terminated eleven times, ten restarts were made
\* and the watchdog has given up.
C9_Witness ==
  /\ gaveUp
  /\ restartsDone = 10
  /\ procCount = 11
  /\ liveProcs = {}

\* C23: a start or attach that fails during a restart is fatal to that
\* attempt only: the watchdog stays in its loop, and neither it nor the
\* process ends.
C23_RestartFailureRetried ==
  [][\A tmuxFound \in BOOLEAN :
       WatchdogWakeThrows(tmuxFound) =>
         /\ wdPc' \in {"awaitExit", "sleep"}
         /\ ~exited']_vars

\* C24: at most one live process handle exists at any time, and it is the
\* one the hub holds: the watchdog starts a terminal only after the
\* previous process has terminated.
C24_OneLiveProcess ==
  /\ [](/\ Cardinality(liveProcs) <= 1
        /\ \A h \in liveProcs : h = procCount)
  /\ [][procCount' # procCount => liveProcs = {}]_vars

\* C24 witness: the watchdog has restarted the terminal twice and the
\* third process is the only one running
C24_Witness ==
  /\ restartsDone = 2
  /\ liveProcs = {3}
  /\ terminal = 3
  /\ wdPc = "awaitExit"

\* C25: every step that installs a new process handle (spawnTerminal or
\* attachTerminal) leaves the scrollback empty, with scrollbackSize 0; and
\* what a sink is replayed at registration holds only chunks produced
\* after the handle that was current then was installed, never a chunk of
\* an earlier process.
C25_RestartClearsScrollback ==
  /\ [][procCount' # procCount =>
         /\ scrollbackChunks' = <<>>
         /\ scrollbackSize' = 0]_vars
  /\ [](\A s \in Sinks :
         \A i \in 1..Len(sinkReg[s].replay) :
           sinkReg[s].replay[i].id > sinkReg[s].clear)

\* C25 witness: the first process produced output, the terminal was
\* restarted, and a sink registered after the restart was replayed the
\* output of the second process
C25_Witness ==
  \E s \in Sinks :
    /\ procCount = 2
    /\ sinkReg[s].clear > 0
    /\ sinkReg[s].replay # <<>>

\* C26: while a terminal exists, its size is the clamped size of the last
\* resize request that was applied, also after the watchdog has replaced
\* the process since that request.
C26_SizeSurvivesRestart ==
  (terminal # NULL /\ lastResize.handle # NULL) =>
    termSize = [cols |-> lastResize.toCols, rows |-> lastResize.toRows]

\* C27: the step in which a connection's idle timer fires, and the close
\* of that connection that follows, change nothing but that connection:
\* the process handle, the set of running processes, the scrollback, the
\* auth records and the registered sinks stay as they are, and every
\* other connection keeps its state, its sink and its idle timer.
C27_IdleFireFrame ==
  [][\A c \in Conns :
       (\/ idleClosed'[c] # idleClosed[c]
        \/ (idleClosed[c] >= 0 /\ connState'[c] # connState[c]))
         => /\ connState'[c] \in {"ending", "closed"}
            /\ UNCHANGED <<terminal, shellProc, liveProcs, scrollbackChunks,
                           scrollbackSize, authFailures, clients>>
            /\ \A d \in Conns \ {c} :
                 /\ connState'[d] = connState[d]
                 /\ connStage'[d] = connStage[d]
                 /\ connSink'[d] = connSink[d]
                 /\ idleTimer'[d] = idleTimer[d]]_vars

\* C27 witness: the idle timer ended one connection, which has closed,
\* while the other connection is still open with its shell, its sink and
\* its timer, and the terminal process runs
C27_Witness ==
  \E c, d \in Conns :
    /\ c # d
    /\ idleClosed[c] >= 0
    /\ connState[c] = "closed"
    /\ connState[d] = "open"
    /\ connStage[d] = "shell"
    /\ connSink[d] \in clients
    /\ idleTimer[d] # NULL
    /\ terminal \in liveProcs

\* C28: the step that refuses a connection changes neither the admitted
\* count, nor the sinks, nor the auth records, nor any idle timer; a
\* refused connection stays refused (it is not admitted later), never has
\* an idle timer or a session, and the admitted count is decremented only
\* by the close or error of a connection that had been admitted.
C28_RefusalFrame ==
  /\ [](\A c \in Conns :
         connState[c] = "refused" =>
           /\ idleTimer[c] = NULL
           /\ connStage[c] = "none"
           /\ connSink[c] \notin clients)
  /\ [][\A c \in Conns :
          /\ (connState[c] # "refused" /\ connState'[c] = "refused")
               => UNCHANGED <<activeConnections, clients, authFailures,
                              idleTimer, connStage, connSink>>
          /\ connState[c] = "refused" => connState'[c] = "refused"]_vars
  /\ [][activeConnections' < activeConnections =>
          \E c \in Conns :
            /\ connState[c] \in {"open", "errored", "ending"}
            /\ connState'[c] \in {"errored", "closed"}]_vars

\* C28 witness: a connection was refused at the limit, and afterwards an
\* admitted connection closed and freed its slot while the refused one
\* stays refused
C28_Witness ==
  \E c \in Conns :
    /\ connState[c] = "refused"
    /\ lastConnect.event = "close"
    /\ lastConnect.conn # c
    /\ activeConnections = MaxConnections - 1

\* C29: a restart by the watchdog attaches (no fresh session, no launch
\* timer) exactly when the instance is in attach mode and the session named
\* currentSessionName exists, and spawns a fresh session otherwise; either
\* way the hub's session is currentSessionName, which with the mode has not
\* changed since the initial start, and the watchdog awaits the exit of the
\* new process.
C29_RestartMode ==
  /\ [][restartsDone' # restartsDone =>
          /\ (isAttachMode /\ currentSessionName \in tmuxSessions)
               <=> (pendingLaunch' = pendingLaunch)
          /\ pendingLaunch' \in {pendingLaunch, pendingLaunch + 1}
          /\ tmuxSession' = currentSessionName
          /\ wdPc' = "awaitExit"
          /\ wdProc' = shellProc'
          /\ shellProc' \in liveProcs' \ liveProcs]_vars
  /\ [][svcPc \notin {"init", "startPrompt"} =>
          UNCHANGED <<currentSessionName, isAttachMode>>]_vars

\* C29 witness: an instance in attach mode was restarted once by attach
\* and once, its session having ended, by a fresh spawn under the same name
C29_Witness ==
  /\ isAttachMode
  /\ restartsDone = 2
  /\ pendingLaunch = 1
  /\ tmuxSession = OperatorName
  /\ currentSessionName = OperatorName
  /\ wdPc = "awaitExit"

\* C30: every record of the auth failure map has a count from 1 to
\* MAX_AUTH_FAILURES (5), and a lockedUntil that is positive exactly when
\* the count is 5 and 0 otherwise, whatever the attempts and the clock did.
C30_AuthRecordShape ==
  \A ip \in DOMAIN authFailures :
    /\ authFailures[ip].count >= 1
    /\ authFailures[ip].count <= MAX_AUTH_FAILURES
    /\ authFailures[ip].lockedUntil > 0
         <=> authFailures[ip].count = MAX_AUTH_FAILURES
    /\ authFailures[ip].count < MAX_AUTH_FAILURES
         => authFailures[ip].lockedUntil = 0

\* C30 witness: one ip is locked out with five failures while another has
\* a record of fewer, after an attempt was rejected by the rate limit
C30_Witness ==
  \E a, b \in DOMAIN authFailures :
    /\ authFailures[a].count = MAX_AUTH_FAILURES
    /\ authFailures[a].lockedUntil > now
    /\ authFailures[b].count \in 1..(MAX_AUTH_FAILURES - 1)
    /\ lastAuth.log = "locked-out"

\* C31: with a password configured, an attempt by a method other than
\* "password" is rejected without a comparison; it leaves every record it
\* does not delete exactly as it was, adds no record and starts no
\* lockout, and the only record it can delete is its own source's, and
\* only when that record's lockout has expired.
C31_OtherMethodFrame ==
  [][\A ip \in Ips, method \in Methods \ {"password"}, password \in Supplied :
       Authenticate(ip, Password(Secret), method, password) =>
         /\ lastAuth'.ctx = "reject"
         /\ ~lastAuth'.compared
         /\ lockAt' = lockAt
         /\ \A x \in DOMAIN authFailures' :
              /\ x \in DOMAIN authFailures
              /\ authFailures'[x] = authFailures[x]
         /\ \A x \in DOMAIN authFailures \ DOMAIN authFailures' :
              /\ x = ip
              /\ authFailures[x].lockedUntil > 0
              /\ now > authFailures[x].lockedUntil]_vars

\* C31 witness: an attempt by method "none" was rejected and deleted its
\* source's expired lockout record, while the other source's record of
\* fewer than five failures is still there
C31_Witness ==
  \E other \in DOMAIN authFailures :
    /\ lastAuth.method = "none"
    /\ ~lastAuth.noAuth
    /\ lastAuth.ctx = "reject"
    /\ lastAuth.log = ""
    /\ lastAuth.ip \notin DOMAIN authFailures
    /\ lockAt[lastAuth.ip] >= 0
    /\ lastAuth.at > lockAt[lastAuth.ip] + AUTH_LOCKOUT_MS
    /\ other # lastAuth.ip
    /\ authFailures[other].count \in 1..(MAX_AUTH_FAILURES - 1)

\* C32: a step creates, changes or deletes the record of a source, or
\* starts a lockout for it, only when it is an authentication attempt of
\* that very source, so an attempt from one source leaves the records of
\* all others as they are; and in every state the verdict of any attempt by a source (the
\* ctx call and the log line) is the verdict that attempt would get if the
\* map held that source's record alone, so it does not depend on what the
\* other sources did.
C32_SourceIsolation ==
  /\ [][\A b \in Ips :
          (\/ OnlyRecordOf(authFailures', b) # OnlyRecordOf(authFailures, b)
           \/ lockAt'[b] # lockAt[b])
            => (lastAuth'.ip = b /\ lastAuth'.at = now)]_vars
  /\ [](\A b \in Ips, expected \in {NoPassword, Password(Secret)},
          method \in Methods, password \in Supplied :
          LET here == OnAuthentication(authFailures, expected, b, method,
                                       password, now)
              alone == OnAuthentication(OnlyRecordOf(authFailures, b), expected,
                                        b, method, password, now)
          IN /\ here.ctx = alone.ctx
             /\ here.log = alone.log
             /\ OnlyRecordOf(here.map, b) = alone.map)

\* C32 witness: one source is locked out with five failures, and after that
\* the other source, which had no part in them, was accepted
C32_Witness ==
  \E a \in DOMAIN authFailures :
    /\ authFailures[a].count = MAX_AUTH_FAILURES
    /\ authFailures[a].lockedUntil >= now
    /\ lastAuth.ip # a
    /\ lastAuth.ctx = "accept"
    /\ ~lastAuth.noAuth
    /\ lastAuth.at >= lockAt[a]
    /\ lockAt[a] >= 0

\* C33: the step in which spawnTerminal or attachTerminal installs a new
\* process removes no sink; every chunk a process delivers, the restarted
\* process included, is written once to every sink registered at that
\* moment, whether it registered before or after the restart; and a
\* client's input is written to the handle the hub holds, which is always
\* the newest handle.
C33_SinksSurviveRestart ==
  /\ [][procCount' # procCount =>
          /\ clients' = clients
          /\ sinkWritten' = sinkWritten
          /\ terminal' = procCount']_vars
  /\ [][output' # output =>
          \A s \in clients :
            sinkWritten'[s] = sinkWritten[s] \o output'[Len(output')]]_vars
  /\ [][(lastWrite' # lastWrite /\ terminal # NULL) =>
          /\ lastWrite'.handle = terminal
          /\ terminal = procCount]_vars

\* C33 witness: a sink that registered while the first process ran is
\* still registered after the watchdog's restart, has been written a chunk
\* of the second process, and its connection's input went to the new handle
C33_Witness ==
  \E s \in clients :
    /\ restartsDone >= 1
    /\ sinkReg[s].clear = 0
    /\ sinkReg[s].at < clearedAt
    /\ Len(output) > clearedAt
    /\ sinkWritten[s] # <<>>
    /\ sinkWritten[s][Len(sinkWritten[s])] = output[Len(output)][1]
    /\ lastWrite.handle = procCount
    /\ procCount >= 2
    /\ lastWrite.live

C11_GivenUpTearsDown ==
  gaveUp => /\ ~listening
            /\ clients = {}

\* C21: after a connection's close or error event no sink created for
\* that connection remains in the sink set.
C21_NoSinkAfterClose ==
  \A c \in Conns :
    connState[c] \in {"errored", "closed"} => connSink[c] \notin clients

\* C12: writeToTerminal writes to a handle only while the terminal's
\* process is running; input that arrives after the process has exited and
\* before the restart, or after teardown, reaches no handle.
C12_WriteOnlyWhileRunning ==
  lastWrite.handle # NULL => lastWrite.live

(***************************************************************************)
(* Properties of resizeTerminal.                                           *)
(***************************************************************************)
\* C15: resizeTerminal clamps and never rejects: the size forwarded to the
\* handle has cols in [1, 500] and rows in [1, 200], equals the request
\* where that is in range and the nearer limit where it is not; with no
\* handle nothing is forwarded.
C15_ResizeClamps ==
  /\ lastResize.handle # NULL =>
       /\ lastResize.toCols \in 1..500
       /\ lastResize.toRows \in 1..200
       /\ lastResize.cols \in 1..500 => lastResize.toCols = lastResize.cols
       /\ lastResize.rows \in 1..200 => lastResize.toRows = lastResize.rows
       /\ lastResize.cols < 1 => lastResize.toCols = 1
       /\ lastResize.cols > 500 => lastResize.toCols = 500
       /\ lastResize.rows < 1 => lastResize.toRows = 1
       /\ lastResize.rows > 200 => lastResize.toRows = 200
  /\ lastResize.handle = NULL => lastResize.toCols = 0 /\ lastResize.toRows = 0

\* C15 witness: a request of 501 x 0 reached the handle as 500 x 1
C15_Witness ==
  /\ lastResize.handle # NULL
  /\ lastResize.cols = 501
  /\ lastResize.rows = 0
  /\ lastResize.toCols = 500
  /\ lastResize.toRows = 1

(***************************************************************************)
(* Properties of the idle timer.                                           *)
(***************************************************************************)
\* C16: an admitted connection is ended by its idle timer exactly when 30
\* minutes have passed since the later of its admission and its last data
\* frame: while it is open its timer is due a full window after that
\* moment and the window has not run out, and when the timer ends it the
\* window has just run out; so a connection that keeps sending data at
\* shorter intervals is never ended by the timer.
C16_IdleTimeout ==
  \A c \in Conns :
    /\ connState[c] = "open" =>
         /\ idleTimer[c] = lastActivity[c] + 1800000
         /\ now <= lastActivity[c] + 1800000
    /\ idleClosed[c] >= 0 =>
         /\ idleClosed[c] = lastActivity[c] + 1800000
         /\ connState[c] \in {"ending", "closed"}

\* C16 witness: a connection sent a frame 20 minutes after its admission
\* and was ended by the timer 30 minutes after that frame
C16_Witness ==
  \E c \in Conns :
    /\ connStage[c] = "shell"
    /\ lastActivity[c] = StartTime + 1200000
    /\ idleClosed[c] = StartTime + 3000000
    /\ lastWrite.handle # NULL

(***************************************************************************)
(* Properties of createTmuxSessionName.                                    *)
(***************************************************************************)
\* C18: createTmuxSessionName(cwd) is the basename of cwd with every
\* character outside [a-zA-Z0-9_-] replaced by '-', then '-', then exactly
\* six lowercase hexadecimal characters, and nothing after them.
C18_SessionNamePattern ==
  nameOut # NoName =>
    LET name == nameOut.name
        folder == nameOut.cwd.folder
    IN /\ Len(name) = Len(folder) + 7
       /\ SubSeq(name, 1, Len(folder)) = folder
       /\ name[Len(folder) + 1] = "-"
       /\ \A i \in (Len(folder) + 2)..(Len(folder) + 7) :
            \E d \in 1..16 : name[i] = HexDigits[d]

(***************************************************************************)
(* Properties of the PID marker.                                           *)
(***************************************************************************)
\* C19: of the instances started for one port at most one gets past the
\* already-running check and starts its terminal and SSH server while
\* another is alive; the marker is written on startup and removed on
\* clean shutdown.
C19_SingleInstance ==
  Cardinality({i \in Instances : instPc[i] \in {"started", "running"}}) <= 1

(***************************************************************************)
(* Properties of the authentication handler.                               *)
(***************************************************************************)
\* attempt j of the log is evaluated fresh: it is the first one, or follows
\* an accepted one, or is the first one made more than AUTH_LOCKOUT_MS after
\* the source was locked out
FreshAttempt(j) ==
  \/ j = 1
  \/ authLog[j - 1].ctx = "accept"
  \/ \E k \in 1..(j - 1) :
       /\ authLog[k].log = "failed-locked"
       /\ authLog[j].t > authLog[k].t + AUTH_LOCKOUT_MS
       /\ \A i \in (k + 1)..(j - 1) :
            authLog[i].t <= authLog[k].t + AUTH_LOCKOUT_MS

\* attempts j..j+n of the log all carry a wrong password
WrongRun(j, n) ==
  /\ j + n <= Len(authLog)
  /\ \A i \in j..(j + n) : ~authLog[i].right

\* C4: with a password configured, of five consecutive wrong passwords from
\* one source (starting fresh) the first four are plainly rejected and the
\* fifth is rejected with a lockout, lockedUntil = now + 60 s; every attempt
\* within the 60 s is rejected as locked out and leaves the count at 5; the
\* first attempt after more than 60 s is evaluated fresh: a correct password
\* is accepted, a wrong one is failure number 1.
C4_LockoutSchedule ==
  LET ip == "10.0.0.1"
      n == Len(authLog)
  IN
  /\ \A j \in 1..n :
       FreshAttempt(j) =>
         /\ authLog[j].right => authLog[j].ctx = "accept"
         /\ \A k \in 0..(MAX_AUTH_FAILURES - 1) :
              WrongRun(j, k) =>
                /\ authLog[j + k].ctx = "reject"
                /\ authLog[j + k].log =
                     IF k < MAX_AUTH_FAILURES - 1 THEN "failed" ELSE "failed-locked"
                /\ (j + k = n /\ k < MAX_AUTH_FAILURES - 1) =>
                     authFailures[ip] = [count |-> k + 1, lockedUntil |-> 0]
  /\ \A k \in 1..n :
       authLog[k].log = "failed-locked" =>
         /\ \A m \in (k + 1)..n :
              authLog[m].t <= authLog[k].t + AUTH_LOCKOUT_MS =>
                authLog[m].ctx = "reject" /\ authLog[m].log = "locked-out"
         /\ (\A m \in (k + 1)..n : authLog[m].t <= authLog[k].t + AUTH_LOCKOUT_MS)
              => authFailures[ip] =
                   [count |-> MAX_AUTH_FAILURES,
                    lockedUntil |-> authLog[k].t + AUTH_LOCKOUT_MS]

\* C4 witness: five wrong passwords, a sixth attempt within the lockout,
\* and a seventh, correct one after it that is accepted
C4_Witness ==
  /\ Len(authLog) = 7
  /\ WrongRun(1, 4)
  /\ authLog[5].log = "failed-locked"
  /\ authLog[6].log = "locked-out"
  /\ authLog[7].t > authLog[5].t + AUTH_LOCKOUT_MS
  /\ authLog[7].ctx = "accept"

\* the source was told "locked out" at most AUTH_LOCKOUT_MS ago
LockedOutNow(ip) == lockAt[ip] >= 0 /\ now <= lockAt[ip] + AUTH_LOCKOUT_MS

\* C5: while a source is locked out, every authentication attempt from it
\* against the configured password (the correct password included) is
\* rejected and leaves the failure map as it is; the lockout of a stored
\* record always ends 60 s after the failure that caused it.
C5_LockedOutUnchanged ==
  /\ [](\A ip \in DOMAIN authFailures :
          authFailures[ip].count >= MAX_AUTH_FAILURES =>
            authFailures[ip].lockedUntil = lockAt[ip] + AUTH_LOCKOUT_MS)
  /\ [][\A ip \in Ips, method \in Methods, password \in Supplied :
          (LockedOutNow(ip)
             /\ Authenticate(ip, Password(Secret), method, password))
            => /\ lastAuth'.ctx = "reject"
               /\ authFailures' = authFailures]_vars

\* C5 witness: the correct password was rejected because of the lockout
C5_Witness ==
  /\ lastAuth.log = "locked-out"
  /\ lastAuth.method = "password"
  /\ lastAuth.password = Secret
  /\ ~lastAuth.noAuth

\* the failures counted against a source at an attempt: the count of its
\* record, or none when it has no record or its lockout has expired
PriorCount(ip) ==
  IF ip \in DOMAIN authFailures
       /\ ~(now > authFailures[ip].lockedUntil
              /\ authFailures[ip].lockedUntil > 0)
    THEN authFailures[ip].count ELSE 0

C14_SuccessClearsRecord ==
  /\ lastAuth.log = "accepted" => lastAuth.ip \notin DOMAIN authFailures
  /\ \A j \in 1..Len(authLog) :
       /\ authLog[j].log = "accepted" => authLog[j].right
       /\ authLog[j].log = "failed-locked" =>
            /\ j >= MAX_AUTH_FAILURES
            /\ \A k \in (j - MAX_AUTH_FAILURES + 1)..(j - 1) :
                 authLog[k].log = "failed"

\* C14 witness: four failures, a success, and a failure that starts a new
\* count at one
C14_Witness ==
  /\ Len(authLog) = 6
  /\ \A k \in 1..4 : authLog[k].log = "failed"
  /\ authLog[5].log = "accepted"
  /\ authLog[6].log = "failed"
  /\ authFailures[lastAuth.ip].count = 1

\* C7: when the expected password is null every authentication attempt is
\* accepted, whatever the method, the source and its failure record, and
\* the failure map is left as it is.
C7_NoAuthBypass ==
  [][\A ip \in Ips, method \in Methods, password \in Supplied :
       Authenticate(ip, NoPassword, method, password)
         => /\ lastAuth'.ctx = "accept"
            /\ authFailures' = authFailures]_vars

\* C7 witness: a locked-out source was accepted by a server without password
C7_Witness ==
  /\ lastAuth.noAuth
  /\ lastAuth.ctx = "accept"
  /\ lastAuth.method = "none"
  /\ LockedOutNow(lastAuth.ip)
  /\ lastAuth.ip \in DOMAIN authFailures
  /\ authFailures[lastAuth.ip].count >= MAX_AUTH_FAILURES

(***************************************************************************)
(* Properties of the hub.                                                  *)
(***************************************************************************)
\* the chunks of `output` from index i to index j, as one byte stream
OutputBytes(i, j) == BufferConcat(SubSeq(output, i, j))

\* the output the current process has produced since the scrollback was
\* last cleared, as delivered when `at` chunks had been produced
SinceClear(clear, at) == SubSeq(output, clear + 1, at)

RECURSIVE SumLengths(_)
SumLengths(chunks) ==
  IF chunks = <<>> THEN 0
  ELSE BufLength(Head(chunks)) + SumLengths(Tail(chunks))

\* the longest suffix of whole chunks that fits the cap, or the newest chunk
\* alone when even that one does not fit
RetainedSuffix(chunks) ==
  LET n == Len(chunks)
      fits == {i \in 1..n : SumLengths(SubSeq(chunks, i, n)) <= MAX_SCROLLBACK}
      from == IF fits = {} THEN n
              ELSE CHOOSE i \in fits : \A j \in fits : i <= j
  IN IF n = 0 THEN <<>> ELSE SubSeq(chunks, from, n)

NoRunTwice(stream) ==
  \A i, j \in 1..Len(stream) : stream[i].id = stream[j].id => i = j

\* C22: a write to one sink that fails during a broadcast closes that sink
\* only: it leaves the sink set, the chunk is appended to the scrollback
\* once, and every other registered sink receives the chunk.
C22_FailingWriteIsolated ==
  [][\A h \in liveProcs, len \in ChunkLens, bad \in Sinks :
       ProcDataThrows(h, len, bad) =>
         LET chunk == <<[id |-> Len(output) + 1, len |-> len]>> IN
         /\ clients' = clients \ {bad}
         /\ output' = Append(output, chunk)
         /\ \A s \in clients \ {bad} : sinkWritten'[s] = sinkWritten[s] \o chunk]_vars

\* C17: removeClient is idempotent: the stream close handler that runs
\* after the stream error handler removes a sink that is already gone and
\* leaves the sink set as it is; the registered sinks are always exactly
\* the sinks whose stream is open, so every other sink stays registered.
C17_RemoveIdempotent ==
  /\ [](clients = {s \in Sinks : sinkPhase[s] = "open"})
  /\ [][\A s \in Sinks :
          (sinkPhase[s] = "errored" /\ sinkPhase'[s] = "closed")
            => /\ s \notin clients
               /\ clients' = clients]_vars

\* C17 witness: one sink was removed by the error and again by the close
\* handler while the other stays registered
C17_Witness ==
  /\ sinkPhase["s1"] = "closed"
  /\ sinkReg["s1"].at >= 0
  /\ clients = {"s2"}
  /\ Len(sinkWritten["s2"]) > 0

\* C1: a sink that is registered and stays registered has been written
\* exactly the scrollback as it was at its registration, followed by every
\* chunk produced since, each once and in production order; what it was
\* written is a gap-free, duplicate-free tail of the process output.
C1_ReplayThenLive ==
  \A s \in clients :
    /\ sinkWritten[s] =
         BufferConcat(sinkReg[s].scroll)
           \o OutputBytes(sinkReg[s].at + 1, Len(output))
    /\ sinkWritten[s] =
         OutputBytes(Len(output) - Len(sinkWritten[s]) + 1, Len(output))

\* C1 witness: a registered sink that was replayed a non-empty scrollback
\* and has received live output after it, while another sink came and went
C1_Witness ==
  \E s \in clients, o \in Sinks :
    /\ sinkReg[s].replay # <<>>
    /\ Len(output) > sinkReg[s].at
    /\ sinkPhase[o] = "closed"

\* C2 as stated: at registration a sink is written exactly the N bytes the
\* process has produced so far.
C2_ReplayAllOutput ==
  \A s \in Sinks :
    sinkPhase[s] # "new" =>
      sinkReg[s].replay = OutputBytes(sinkReg[s].clear + 1, sinkReg[s].at)

\* C2 amended: at registration a sink is written, once and before any live
\* chunk, exactly the retained scrollback: all N bytes produced since the
\* terminal was (re)started when they total at most MAX_SCROLLBACK, and
\* otherwise the newest whole chunks that fit MAX_SCROLLBACK (the newest
\* chunk alone when it exceeds the cap by itself).
C2_ReplayRetained ==
  \A s \in Sinks :
    sinkPhase[s] # "new" =>
      LET produced == SinceClear(sinkReg[s].clear, sinkReg[s].at)
          replay == sinkReg[s].replay
      IN /\ replay = BufferConcat(RetainedSuffix(produced))
         /\ SumLengths(produced) <= MAX_SCROLLBACK
              => replay = BufferConcat(produced)
         /\ SubSeq(sinkWritten[s], 1, Len(replay)) = replay
         /\ NoRunTwice(sinkWritten[s])

\* C2 witness: a sink registered after output of which part had been evicted
C2_Witness ==
  \E s \in Sinks :
    /\ sinkPhase[s] # "new"
    /\ sinkReg[s].replay # <<>>
    /\ Len(sinkReg[s].replay) < sinkReg[s].at - sinkReg[s].clear

\* C3: either scrollbackSize <= MAX_SCROLLBACK or exactly one chunk is
\* buffered; scrollbackSize is the sum of the buffered chunks' lengths; the
\* buffered chunks are a contiguous suffix, in production order, of the
\* output appended since the last clear.
C3_ScrollbackCap ==
  /\ scrollbackSize <= MAX_SCROLLBACK \/ Len(scrollbackChunks) = 1
  /\ scrollbackSize = SumLengths(scrollbackChunks)
  /\ Len(scrollbackChunks) <= Len(output) - clearedAt
  /\ scrollbackChunks =
       SubSeq(output, Len(output) - Len(scrollbackChunks) + 1, Len(output))

\* C3 witness: an append has evicted from the front and left several chunks
C3_Witness ==
  /\ Len(scrollbackChunks) >= 2
  /\ Len(scrollbackChunks) < Len(output) - clearedAt

====
